---- MODULE Spec2Model ----
(***************************************************************************)
(* Streaming transcription stabilisation engine of whisper_streaming_web:  *)
(*   src/src/whisper_streaming/online_asr.py  HypothesisBuffer,            *)
(*       OnlineASRProcessor, VACOnlineASRProcessor                         *)
(*   src/src/translation/translation.py       TranslationPipeline          *)
(*   src/src/translation/server.py            main_loop                    *)
(*                                                                         *)
(* Units. Every timestamp of the source is a float number of seconds.  The *)
(* model counts time in ticks of 1/20 s, so that the literal 0.1 of        *)
(* HypothesisBuffer.insert is 2 ticks (Tenth) and the literal 1 is 20      *)
(* ticks (OneSec).  Audio is counted in blocks of one tick (800 samples of *)
(* the 16 kHz stream), hence SAMPLING_RATE is 1 block per tick and         *)
(* int(seconds * SAMPLING_RATE) is exact.  An audio buffer is the sequence *)
(* of the source-stream indices of its blocks.                             *)
(*                                                                         *)
(* A text is a sequence of one-character strings, so that the regular      *)
(* expressions of words_to_sentences and the [-200:] of the prompt act on  *)
(* characters.  A timed word is the tuple <<start, end, text>>; Python's   *)
(* w[0], w[1], w[2] are w[1], w[2], w[3] here.  None is -1 (no timestamp   *)
(* of the model is negative).                                              *)
(***************************************************************************)
EXTENDS Integers, Sequences, FiniteSets, TLC

\* ---------------------------------------------------------------- bounds
\* most audio blocks the buffer of the processor is let to hold
MaxAudio == 3
\* most blocks one insert_audio_chunk call appends
MaxChunk == 2
\* most words of one ASR hypothesis
MaxWords == 2
\* most ASR invocations within one utterance
MaxCalls == 3
\* latest timestamp of a word, from block 0 of the audio given to the ASR
MaxTime == 2
\* target languages of the pipeline
NumTranslators == 2
\* output streams of one translator
NumStreams == 2
\* most tasks put_text submits
MaxPuts == 3
\* most blocks the audio source delivers to the VAC wrapper
MaxStream == 5
\* how many blocks before the chunk a VAD event may lie (its padding)
MaxPad == 1
\* most ASR invocations under the VAC wrapper
MaxCallsVAC == 2
\* online_chunk_size of the VAC wrapper, in ticks
OnlineChunkSize == 1
\* length of the long text of the input alphabet
LongLen == 120
MaxFaults == 2
LongWords == 6
MaxSegWords == 3
MaxRepeated == 2
TrimAudio == 4
TrimSec == 3
MaxNear == 1
MaxCommitted == 1
MaxOffset == 1

\* ------------------------------------------------------ program constants
SAMPLING_RATE == 1
Tenth == 2
OneSec == 20
MaxNgram == 5
PromptCap == 200
MinRepWords == 5

None == -1
EmptySeg == <<None, None, <<>>>>
EmptyPair == <<EmptySeg, EmptySeg>>

Min(a, b) == IF a <= b THEN a ELSE b
Max(a, b) == IF a >= b THEN a ELSE b
Abs(a) == IF a >= 0 THEN a ELSE -a

\* ------------------------------------------------------ Python sequences
\* s[k:] of Python, k any integer
SliceFrom(s, k) ==
    LET n == Len(s)
        lo == IF k >= 0 THEN Min(k, n) ELSE Max(n + k, 0)
    IN  SubSeq(s, lo + 1, n)

\* s[:k] of Python, k any integer
SliceTo(s, k) ==
    LET n == Len(s)
        hi == IF k >= 0 THEN Min(k, n) ELSE Max(n + k, 0)
    IN  SubSeq(s, 1, hi)

\* sep.join(ts)
RECURSIVE Join(_, _)
Join(sep, ts) ==
    IF ts = <<>> THEN <<>>
    ELSE IF Len(ts) = 1 THEN ts[1]
    ELSE ts[1] \o sep \o Join(sep, Tail(ts))

TextsOf(tsw) == [i \in 1..Len(tsw) |-> tsw[i][3]]

\* ------------------------------------------------------- concatenate_tsw
\* b = offset + tsw[0][0] raises TypeError when a timestamp is None
concatenate_tsw_raises(tsw) ==
    Len(tsw) > 0 /\ (tsw[1][1] = None \/ tsw[Len(tsw)][2] = None)

concatenate_tsw(tsw) ==
    IF Len(tsw) = 0 THEN EmptySeg
    ELSE <<tsw[1][1], tsw[Len(tsw)][2], Join(<<>>, TextsOf(tsw))>>

concat_two_segments(first, second) ==
    IF first[2] = None THEN second
    ELSE IF second[2] = None THEN first
    ELSE concatenate_tsw(<<first, second>>)

\* ------------------------------------------------------ HypothesisBuffer
NewHypothesisBuffer ==
    [commited_in_buffer |-> <<>>, buffer |-> <<>>, new |-> <<>>,
     last_commited_time |-> 0, last_commited_word |-> <<>>]

\* the n of the n-gram removal: the for loop breaks at the first i that matches
Smallest(m) == IF m = {} THEN 0 ELSE CHOOSE i \in m : \A j \in m : i <= j

NgramDrop(commited, new) ==
    Smallest({i \in 1..Min(Min(Len(commited), Len(new)), MaxNgram) :
                Join(<<" ">>, TextsOf(SubSeq(commited, Len(commited) - i + 1,
                                             Len(commited))))
                  = Join(<<" ">>, TextsOf(SubSeq(new, 1, i)))})

\* the filter of insert on the end of the word
InsertKeep_ByEnd(w, hb) == w[2] > hb.last_commited_time - Tenth

\* the filter of insert without its condition
InsertKeep_All(w, hb) == TRUE

\* the filter of insert with a tolerance of one second
InsertKeep_Wide(w, hb) == w[1] > hb.last_commited_time - OneSec

\* insert: if a > self.last_commited_time - 0.1
InsertKeep(w, hb) == w[1] > hb.last_commited_time - Tenth

\* insert from "if len(self.new) >= 1" on, kept the words the filter left
InsertKept(hb, kept) ==
    [hb EXCEPT !.new =
        SubSeq(kept,
               1 + (IF /\ Len(kept) >= 1
                       /\ Abs(kept[1][1] - hb.last_commited_time) < OneSec
                       /\ hb.commited_in_buffer # <<>>
                    THEN NgramDrop(hb.commited_in_buffer, kept)
                    ELSE 0),
               Len(kept))]

Insert(hb, new, offset) ==
    InsertKept(hb,
        SelectSeq([i \in 1..Len(new) |->
                     <<new[i][1] + offset, new[i][2] + offset, new[i][3]>>],
                  LAMBDA w : InsertKeep(w, hb)))

\* the while loop of flush: <<new, buffer, commit>> when it ends
RECURSIVE FlushLoop(_, _, _)
FlushLoop(new, buffer, commit) ==
    IF new = <<>> \/ buffer = <<>> THEN <<new, buffer, commit>>
    ELSE IF Head(new)[3] = Head(buffer)[3]
         THEN FlushLoop(Tail(new), Tail(buffer), Append(commit, Head(new)))
         ELSE <<new, buffer, commit>>

\* flush that leaves last_commited_time and last_commited_word as they were
Flushed_KeepTime(hb, new, commit) ==
    [hb |-> [hb EXCEPT
               !.buffer = new,
               !.new = <<>>,
               !.commited_in_buffer = @ \o commit],
     commit |-> commit]

\* flush: the buffer afterwards and the list it returns
Flushed(hb, new, commit) ==
    [hb |-> [hb EXCEPT
               !.buffer = new,
               !.new = <<>>,
               !.commited_in_buffer = @ \o commit,
               !.last_commited_time =
                  IF Len(commit) > 0 THEN commit[Len(commit)][2] ELSE @,
               !.last_commited_word =
                  IF Len(commit) > 0 THEN commit[Len(commit)][3] ELSE @],
     commit |-> commit]

FlushOf(hb, r) == Flushed(hb, r[1], r[3])

\* flush that commits what was inserted without waiting for a second insert
Flush_Eager(hb) == Flushed(hb, <<>>, hb.new)

Flush(hb) == FlushOf(hb, FlushLoop(hb.new, hb.buffer, <<>>))

RECURSIVE PopWhile(_, _)
PopWhile(c, time) ==
    IF c # <<>> /\ Head(c)[2] <= time THEN PopWhile(Tail(c), time) ELSE c

pop_commited(hb, time) ==
    [hb EXCEPT !.commited_in_buffer = PopWhile(@, time)]

\* ------------------------------------------------------------ check_words
Count(x, ts) == Cardinality({i \in 1..Len(ts) : ts[i] = x})

\* check_words that lets every hypothesis through
check_words_Keep(words) == words

check_words(words) ==
    IF Len(words) > MinRepWords
       /\ \E i \in 1..Len(words) :
            2 * Count(words[i][3], TextsOf(words)) > Len(words)
    THEN <<>>
    ELSE words

\* ----------------------------------------------------- words_to_sentences
Digits == {"0", "1", "2", "3", "4", "5", "6", "7", "8", "9"}
\* re.search(r"[.?!]", t)
HasPunct(t) == \E i \in 1..Len(t) : t[i] \in {".", "?", "!"}
\* re.search(r"\.", t)
HasDot(t) == \E i \in 1..Len(t) : t[i] = "."
\* re.match(r"\.", t)
LeadingDot(t) == Len(t) >= 1 /\ t[1] = "."
\* re.search(r"\.\.\.", t)
HasEllipsis(t) ==
    \E i \in 1..(Len(t) - 2) : t[i] = "." /\ t[i + 1] = "." /\ t[i + 2] = "."
\* re.search(r"\d\.", t)
HasDigitDot(t) == \E i \in 1..(Len(t) - 1) : t[i] \in Digits /\ t[i + 1] = "."

\* w[2] = w[2][1:] assigns to an item of a tuple: TypeError
WordRaises(w) == HasPunct(w[3]) /\ HasDot(w[3]) /\ LeadingDot(w[3])

break_sentence(w) ==
    LET t == w[3]
    IN  /\ HasPunct(t)
        /\ \/ ~HasDot(t)
           \/ ~LeadingDot(t) /\ ~HasEllipsis(t) /\ ~HasDigitDot(t)

\* the for loop: the words left, all_sentences, sentence
RECURSIVE SentenceLoop(_, _, _)
SentenceLoop(words, all_sentences, sentence) ==
    IF words = <<>>
    THEN [sentences |-> all_sentences, tailing_words |-> sentence, raised |-> FALSE]
    ELSE LET w == Head(words)
         IN  IF WordRaises(w)
             THEN [sentences |-> all_sentences, tailing_words |-> sentence,
                   raised |-> TRUE]
             ELSE IF break_sentence(w)
                  THEN SentenceLoop(Tail(words),
                         Append(all_sentences, concatenate_tsw(Append(sentence, w))),
                         <<>>)
                  ELSE SentenceLoop(Tail(words), all_sentences, Append(sentence, w))

\* with no word the for loop never binds break_sentence and the test after it
\* raises UnboundLocalError
words_to_sentences(words) ==
    IF words = <<>>
    THEN [sentences |-> <<>>, tailing_words |-> <<>>, raised |-> TRUE]
    ELSE SentenceLoop(words, <<>>, <<>>)

\* ----------------------------------------------------- OnlineASRProcessor
\* the fields init() sets, in a processor built with buffer_trimming = (way, sec)
OnlineInit(way, sec, offset) ==
    [buffer_trimming_way |-> way,
     buffer_trimming_sec |-> sec,
     audio_buffer |-> <<>>,
     len_audio_buffer_last_transcribed |-> 0,
     transcript_buffer |-> [NewHypothesisBuffer EXCEPT !.last_commited_time = offset],
     buffer_time_offset |-> offset,
     promt |-> <<>>,
     final_transcript |-> <<>>,
     commited_not_final |-> <<>>]

insert_audio_chunk(p, audio) == [p EXCEPT !.audio_buffer = @ \o audio]

\* chunk_at that leaves buffer_time_offset where it was
chunk_at_KeepOffset(p, time) ==
    LET cut_seconds == time - p.buffer_time_offset
    IN  [p EXCEPT
           !.transcript_buffer = pop_commited(@, time),
           !.audio_buffer = SliceFrom(@, cut_seconds * SAMPLING_RATE)]

chunk_at(p, time) ==
    LET cut_seconds == time - p.buffer_time_offset
    IN  [p EXCEPT
           !.transcript_buffer = pop_commited(@, time),
           !.audio_buffer = SliceFrom(@, cut_seconds * SAMPLING_RATE),
           !.buffer_time_offset = time]

\* the while loop of chunk_completed_segment: len(ends) when it ends
RECURSIVE EndsLoop(_, _, _)
EndsLoop(ts_words, n, t) ==
    IF n > 2 /\ ts_words[n - 1][2] > t THEN EndsLoop(ts_words, n - 1, t) ELSE n

\* chunk_completed_segment that cuts at the end of the last word and keeps none
ChunkAtEnds_All(p, ts_words, n) ==
    [p |-> [chunk_at(p, ts_words[Len(ts_words)][2]) EXCEPT
              !.final_transcript = @ \o ts_words,
              !.commited_not_final = <<>>],
     ret |-> ts_words]

\* chunk_completed_segment from "if e <= t" on, n the len(ends) the loop left
ChunkAtEnds(p, ts_words, n) ==
    IF ts_words[n - 1][2] <= ts_words[Len(ts_words)][2]
    THEN [p |-> [chunk_at(p, ts_words[n - 1][2]) EXCEPT
                   !.final_transcript = @ \o SubSeq(ts_words, 1, n - 1),
                   !.commited_not_final = SubSeq(ts_words, n, Len(ts_words))],
          ret |-> SubSeq(ts_words, 1, n - 1)]
    ELSE [p |-> p, ret |-> <<>>]

chunk_completed_segment(p, ts_words) ==
    IF Len(ts_words) <= 1 THEN [p |-> p, ret |-> <<>>]
    ELSE ChunkAtEnds(p, ts_words,
                     EndsLoop(ts_words, Len(ts_words), ts_words[Len(ts_words)][2]))

\* the part of get_completed_words below "break audio buffer anyway"
\* what get_completed_words returns after chunk_completed_segment returned r
ForcedChunked(way, r) ==
    IF way = "sentence"
    THEN [p |-> r.p, ret |-> <<concatenate_tsw(r.ret)>>, raised |-> FALSE]
    ELSE [p |-> r.p, ret |-> r.ret, raised |-> FALSE]

ForcedChunk(p) ==
    IF Len(p.audio_buffer) < p.buffer_trimming_sec * SAMPLING_RATE
    THEN [p |-> p, ret |-> <<>>, raised |-> FALSE]
    ELSE ForcedChunked(p.buffer_trimming_way,
                       chunk_completed_segment(p, p.commited_not_final))

\* a sentence branch that does not keep the words after the last sentence
CompletedSentences_DropTail(p, s) ==
    IF s.raised THEN [p |-> p, ret |-> <<>>, raised |-> TRUE]
    ELSE IF Len(s.sentences) > 0
         THEN [p |-> [chunk_at(p, s.sentences[Len(s.sentences)][2]) EXCEPT
                        !.commited_not_final = <<>>],
               ret |-> s.sentences, raised |-> FALSE]
         ELSE ForcedChunk(p)

\* the sentence branch of get_completed_words, s what words_to_sentences gave
CompletedSentences(p, s) ==
    IF s.raised THEN [p |-> p, ret |-> <<>>, raised |-> TRUE]
    ELSE IF Len(s.sentences) > 0
         THEN [p |-> [chunk_at(p, s.sentences[Len(s.sentences)][2]) EXCEPT
                        !.commited_not_final = s.tailing_words],
               ret |-> s.sentences, raised |-> FALSE]
         ELSE ForcedChunk(p)

get_completed_words(p) ==
    IF p.buffer_trimming_way = "sentence"
    THEN CompletedSentences(p, words_to_sentences(p.commited_not_final))
    ELSE ForcedChunk(p)

\* transcribe_audio_buffer without the test for new audio
transcribe_audio_buffer_Always(p, h) ==
    [p |-> [p EXCEPT !.len_audio_buffer_last_transcribed = Len(p.audio_buffer)],
     tsw |-> [i \in 1..Len(h) |->
                <<h[i][1] + p.buffer_time_offset,
                  h[i][2] + p.buffer_time_offset, h[i][3]>>],
     called |-> TRUE]

\* transcribe_audio_buffer, h the words the external ASR gives for the buffer
transcribe_audio_buffer(p, h) ==
    IF Len(p.audio_buffer) = p.len_audio_buffer_last_transcribed
    THEN [p |-> p, tsw |-> <<>>, called |-> FALSE]
    ELSE [p |-> [p EXCEPT !.len_audio_buffer_last_transcribed = Len(p.audio_buffer)],
          tsw |-> [i \in 1..Len(h) |->
                     <<h[i][1] + p.buffer_time_offset,
                       h[i][2] + p.buffer_time_offset, h[i][3]>>],
          called |-> TRUE]

\* transcribe_audio_buffer: the shift of the words by buffer_time_offset, read
\* when the ASR call has returned
ts_words_shifted(p, h) ==
    [i \in 1..Len(h) |->
        <<h[i][1] + p.buffer_time_offset, h[i][2] + p.buffer_time_offset, h[i][3]>>]

\* a prompt update that keeps everything
UpdatePromt_NoCap(promt, text) == promt \o text

\* self.promt = (self.promt + completed[2])[-200:]
UpdatePromt(promt, text) == SliceFrom(promt \o text, -PromptCap)

\* process_iter from "completed = concatenate_tsw(completed_words)" on
Completed(p3, completed_words) ==
    IF concatenate_tsw_raises(completed_words)
    THEN [p |-> p3, completed |-> EmptySeg, raised |-> TRUE]
    ELSE [p |-> [p3 EXCEPT !.promt =
                   UpdatePromt(@, concatenate_tsw(completed_words)[3])],
          completed |-> concatenate_tsw(completed_words), raised |-> FALSE]

\* process_iter after get_completed_words, called on p2, returned g
AfterGet(p2, g) ==
    IF g.raised THEN [p |-> p2, completed |-> EmptySeg, raised |-> TRUE]
    ELSE IF Len(g.ret) = 0
         THEN [p |-> g.p, completed |-> EmptySeg, raised |-> FALSE]
         ELSE Completed([g.p EXCEPT !.final_transcript = @ \o g.ret], g.ret)

\* process_iter from "self.commited_not_final.extend(commited_tsw)" on
Extended(p2) == AfterGet(p2, get_completed_words(p2))

\* process_iter from "if len(commited_tsw) > 0" on, p1 the processor after flush
AfterFlush(p1, commit) ==
    IF Len(commit) = 0
    THEN [p |-> p1, completed |-> EmptySeg, raised |-> FALSE]
    ELSE Extended([p1 EXCEPT !.commited_not_final = @ \o commit])

\* what process_iter returns, a the outcome of AfterFlush
Returned(a, commit, called) ==
    [p |-> a.p,
     ret |-> IF a.raised THEN EmptyPair
             ELSE <<a.completed,
                    concat_two_segments(concatenate_tsw(a.p.commited_not_final),
                                        concatenate_tsw(a.p.transcript_buffer.buffer))>>,
     commit |-> commit, called |-> called, raised |-> a.raised]

\* process_iter after flush returned f
AfterCommit(p, f, called) ==
    Returned(AfterFlush([p EXCEPT !.transcript_buffer = f.hb], f.commit),
             f.commit, called)

\* process_iter after check_words returned tsw
Checked(p, tsw, called) ==
    IF Len(tsw) = 0
    THEN [p |-> p, ret |-> EmptyPair, commit |-> <<>>,
          called |-> called, raised |-> FALSE]
    ELSE AfterCommit(p, Flush(Insert(p.transcript_buffer, tsw, 0)), called)

\* process_iter after transcribe_audio_buffer returned tr
Transcribed(tr) == Checked(tr.p, check_words(tr.tsw), tr.called)

process_iter(p, h) == Transcribed(transcribe_audio_buffer(p, h))

\* finish after transcribe_audio_buffer returned tr
Finished(tr) ==
    [p |-> [tr.p EXCEPT !.commited_not_final = <<>>, !.audio_buffer = <<>>],
     ret |-> <<concatenate_tsw(tr.tsw), EmptySeg>>,
     called |-> tr.called]

finish(p, h) == Finished(transcribe_audio_buffer(p, h))

\* ------------------------------------------------- VACOnlineASRProcessor
\* the fields VACOnlineASRProcessor.init() sets (self.online is the variable online)
VACInit(online_chunk_size) ==
    [online_chunk_size |-> online_chunk_size,
     current_online_chunk_buffer_size |-> 0,
     is_currently_final |-> FALSE,
     status |-> "None",
     audio_buffer |-> <<>>,
     buffer_offset |-> 0]

clear_buffer(v) ==
    [v EXCEPT !.buffer_offset = @ + Len(v.audio_buffer), !.audio_buffer = <<>>]

\* frame = vac_time - self.buffer_offset + len(audio)
Frame(v, vac_time, audio) == vac_time - v.buffer_offset + Len(audio)

\* VACOnlineASRProcessor.insert_audio_chunk; res is <<vac_key, vac_time>>, <<"None", None>> for no event,
\* way and sec the buffer_trimming of the wrapped processor.
\* The result: the wrapper, the wrapped processor, the audio forwarded to it.
vac_insert_audio_chunk(v, p, audio, res) ==
    LET v1 == [v EXCEPT !.audio_buffer = @ \o audio]
    IN  IF res[1] = "None"
        THEN IF v1.status = "voice"
             THEN [v |-> clear_buffer([v1 EXCEPT
                            !.current_online_chunk_buffer_size = @ + Len(v1.audio_buffer)]),
                   p |-> insert_audio_chunk(p, v1.audio_buffer),
                   sent |-> v1.audio_buffer]
             ELSE [v |-> clear_buffer(v1), p |-> p, sent |-> <<>>]
        ELSE LET vac_key  == res[1]
                 vac_time == res[2]
                 frame    == Frame(v, vac_time, audio)
             IN  IF vac_key = "start"
                 THEN LET send_audio == SliceFrom(v1.audio_buffer, frame)
                          p1 == OnlineInit(p.buffer_trimming_way, p.buffer_trimming_sec,
                                           vac_time \div SAMPLING_RATE)
                      IN  [v |-> clear_buffer([v1 EXCEPT
                                     !.status = "voice",
                                     !.current_online_chunk_buffer_size =
                                        @ + Len(send_audio)]),
                           p |-> insert_audio_chunk(p1, send_audio),
                           sent |-> send_audio]
                 ELSE LET send_audio == SliceTo(v1.audio_buffer, frame)
                      IN  [v |-> clear_buffer([v1 EXCEPT
                                     !.status = "nonvoice",
                                     !.is_currently_final = TRUE,
                                     !.current_online_chunk_buffer_size =
                                        @ + Len(send_audio)]),
                           p |-> insert_audio_chunk(p, send_audio),
                           sent |-> send_audio]

\* what the wrapper's process_iter gives with the outcome r of online.finish()
VACFinished(v, r) ==
    [v |-> v, p |-> r.p, ret |-> r.ret, called |-> r.called, raised |-> FALSE,
     commit |-> <<>>]

\* a finish() that leaves the flag and the counter as they are
vac_finish_NoReset(v, p, h) == VACFinished(v, finish(p, h))

\* VACOnlineASRProcessor.finish
vac_finish(v, p, h) ==
    VACFinished([v EXCEPT !.current_online_chunk_buffer_size = 0,
                          !.is_currently_final = FALSE],
                finish(p, h))

\* what the wrapper's process_iter gives with the outcome r of online.process_iter()
VACIterated(v, r) ==
    [v |-> v, p |-> r.p, ret |-> r.ret, called |-> r.called, raised |-> r.raised,
     commit |-> r.commit]

\* VACOnlineASRProcessor.process_iter
vac_process_iter(v, p, h) ==
    IF v.is_currently_final THEN vac_finish(v, p, h)
    ELSE IF v.current_online_chunk_buffer_size > SAMPLING_RATE * v.online_chunk_size
         THEN VACIterated([v EXCEPT !.current_online_chunk_buffer_size = 0],
                          process_iter(p, h))
         ELSE [v |-> v, p |-> p, ret |-> EmptyPair, called |-> FALSE, raised |-> FALSE,
               commit |-> <<>>]

\* ---------------------------------------------------- TranslationPipeline
\* queue.Queue: put at the back
QueuePut(q, task) == Append(q, task)

\* a get that takes the newest task
QueueGet_Newest(q) == [task |-> q[Len(q)], rest |-> SubSeq(q, 1, Len(q) - 1)]

\* queue.Queue: get from the front
QueueGet(q) == [task |-> Head(q), rest |-> Tail(q)]

\* a worker that translates every task
ShouldDispatch_Always(is_complete, size) == TRUE

\* _translation_thread: if is_complete or (queue_size == 0)
ShouldDispatch(is_complete, size) == is_complete \/ size = 0

\* what the MT model gives for a text and a target language
Translate(lang, text) == <<lang, text>>

\* OnlineTranslator.translate_to_output: the streams of one translator after it
translate_to_output(streams, lang, text, is_complete) ==
    [s \in DOMAIN streams |-> Append(streams[s], <<Translate(lang, text), is_complete>>)]

\* what _translate_tokenized_text and _translate_with_deepl return from their
\* except branch
TranslationError == <<"[ Translation Error ]">>

\* translate_prepared_text: the model call raises inside the try, or returns
translate_prepared_text(lang, text, model_raises) ==
    IF model_raises THEN TranslationError ELSE Translate(lang, text)

\* the for loop over self.output_streams when write() of stream failing raises
\* (0: none does): the streams before it have been written, the others not
WriteUntil(streams, translation, is_complete, failing) ==
    [s \in DOMAIN streams |->
        IF failing = 0 \/ s < failing
        THEN Append(streams[s], <<translation, is_complete>>)
        ELSE streams[s]]

\* ------------------------------------------------------------------ state
VARIABLES
    online,       \* the OnlineASRProcessor: its fields, transcript_buffer included
    raised,       \* process_iter raised: main_loop logs, re-raises and shuts down
    finished,     \* finish() has returned
    op,           \* the last call made on the transcriber
    ret,          \* what the last process_iter / finish returned
    flushed,      \* every word flush() has returned since init, in commit order
    last_commit,  \* what flush() returned in the last process_iter
    lct_before,   \* last_commited_time when that process_iter called insert
    inc,          \* blocks inserted since the last process_iter
    max_inc,      \* most blocks inserted between two process_iter calls so far
    inserted,     \* blocks the audio source has delivered since init
    calls,        \* ASR invocations so far
    vac,          \* the VACOnlineASRProcessor: its fields but self.online
    utt_start,    \* source index of the last VAD start event, None before it
    utt_end,      \* source index of the VAD end event that followed it, or None
    forwarded,    \* source indices of the blocks forwarded since that start event
    phase,        \* "ended": end event seen, no process_iter since; "restarted":
                  \* a start event after it, still no process_iter; "finished":
                  \* that process_iter was made, no VAD event since; else "idle"
    asr_h,        \* what the ASR returned when it was last asked
    translation_queue,  \* TranslationPipeline.translation_queue
    should_run,   \* TranslationPipeline.should_run
    pc,           \* where the translation thread is
    task,         \* the task it has dequeued
    queue_size,   \* the qsize() it measured for that task
    next_T,       \* index of the translator it calls next
    output_streams,  \* per translator, per output stream: what was written
    submitted,    \* the tasks put_text has enqueued, in order
    reached,      \* the translators the dequeued task has reached
    handled,      \* per task the thread is done with: task, measured size, reached
    first_get,    \* how many tasks had been submitted at the first dequeue
    stop_pc,      \* where stop() is
    original_output_streams,  \* what put_text wrote to the original streams
    stopped,      \* whose streams are stopped: 0 the original ones, T a translator's
    invoked,      \* the last process_iter / finish invoked the ASR
    chunk_t,      \* the time of the last chunk_at called from outside, or None
    chunk_rep,    \* how many times in a row it has been called with that time
    hbuf,         \* a HypothesisBuffer fed on its own
    hb_H,         \* the hypothesis and offset of its last insert
    hb_rep,       \* how many times in a row that same hypothesis has been fed
    hb_first,     \* what flush() returned after the first of these feeds
    hb_last,      \* what flush() returned after the last feed
    hb_was_empty, \* its buffer was empty before the first of these feeds
    audio_pc,     \* the audio thread in insert_audio_chunk: "idle" or "append"
    audio_local,  \* the buffer it has built, to store
    trim_pc,      \* the transcription thread in chunk_at: "idle" or "slice"
    trim_local,   \* the buffer it has sliced, to store
    trim_time,    \* the time it is trimming at
    iter_pc,      \* the transcription thread in process_iter: "idle" or "transcribing"
    trimmed,      \* blocks chunk_at has cut off since init
    fn_in,        \* the arguments of the last call of a function made on its own
    fn_out,       \* what that call returned
    asr_prev,     \* what the ASR returned the time before it returned asr_h
    main_pc,      \* main_loop: "running", then the steps of its finally block
    faults        \* the exceptions raised so far in the translation pipeline

asrVars == <<online, raised, finished, op, ret, flushed, last_commit, lct_before,
             inc, max_inc, inserted, calls>>
vacVars == <<vac, utt_start, utt_end, forwarded, phase, asr_h>>
trVars == <<translation_queue, should_run, pc, task, queue_size, next_T,
            output_streams, submitted, reached, handled, first_get, stop_pc,
            original_output_streams, stopped>>
callVars == <<invoked, chunk_t, chunk_rep>>
hbVars == <<hbuf, hb_H, hb_rep, hb_first, hb_last, hb_was_empty>>
raceVars == <<audio_pc, audio_local, trim_pc, trim_local, trim_time, trimmed,
             iter_pc>>
mainVars == <<main_pc, faults>>
fnVars == <<fn_in, fn_out, asr_prev>>
vars == <<asrVars, vacVars, trVars, callVars, hbVars, raceVars, mainVars, fnVars>>

\* ----------------------------------------------------------------- inputs
TextA == <<"a">>
TextLong == [i \in 1..LongLen |-> "x"] \o <<".">>
Texts == {TextA, TextLong}

\* what the ASR may return for a buffer of n blocks: at most MaxWords words in
\* time order, each with 0 <= start <= end (times relative to block 0), none
\* later than the end of the audio nor than MaxTime
WordsIn(n) == {w \in (0..Min(n, MaxTime)) \X (0..Min(n, MaxTime)) \X Texts :
                 w[1] <= w[2]}
InTimeOrder(h) == \A i \in 1..(Len(h) - 1) : h[i][2] <= h[i + 1][1]
Hypotheses(n) ==
    {h \in UNION {[1..k -> WordsIn(n)] : k \in 0..MaxWords} : InTimeOrder(h)}

\* buffer_trimming = (way, sec) of the constructor: sec is positive
TrimmingWays == {"segment", "sentence"}
TrimmingSecs == {1, 2}

\* target_languages and the output streams of each OnlineTranslator
Translators == 1..NumTranslators
Streams == 1..NumStreams

\* -------------------------------------------------- the parts not running
ASRIdle ==
    /\ online = OnlineInit("segment", 2, 0)
    /\ raised = FALSE /\ finished = FALSE /\ op = "init" /\ ret = EmptyPair
    /\ flushed = <<>> /\ last_commit = <<>> /\ lct_before = 0
    /\ inc = 0 /\ max_inc = 0 /\ inserted = 0 /\ calls = 0

VACIdle ==
    /\ vac = VACInit(OnlineChunkSize)
    /\ utt_start = None /\ utt_end = None /\ forwarded = <<>>
    /\ phase = "idle" /\ asr_h = <<>>

\* TranslationPipeline.__init__
TranslationInit ==
    /\ translation_queue = <<>>
    /\ should_run = FALSE
    /\ pc = "not started"
    /\ task = <<>>
    /\ queue_size = 0
    /\ next_T = 0
    /\ output_streams = [T \in Translators |-> [s \in Streams |-> <<>>]]
    /\ submitted = <<>>
    /\ reached = {}
    /\ handled = <<>>
    /\ first_get = None
    /\ stop_pc = "none"
    /\ original_output_streams = <<>>
    /\ stopped = {}

\* HypothesisBuffer.__init__, nothing fed
HBIdle ==
    /\ hbuf = NewHypothesisBuffer
    /\ hb_H = <<>> /\ hb_rep = 0 /\ hb_first = <<>> /\ hb_last = <<>>
    /\ hb_was_empty = TRUE

\* no call made, both threads outside the audio buffer, main_loop running
ThreadsIdle ==
    /\ invoked = FALSE /\ chunk_t = None /\ chunk_rep = 0
    /\ audio_pc = "idle" /\ audio_local = <<>>
    /\ trim_pc = "idle" /\ trim_local = <<>> /\ trim_time = 0 /\ trimmed = 0
    /\ iter_pc = "idle"
    /\ main_pc = "running" /\ faults = <<>>
    /\ fn_in = <<>> /\ fn_out = <<>> /\ asr_prev = <<>>

\* ------------------------------------ OnlineASRProcessor under main_loop
Init ==
    /\ online \in {OnlineInit(way, sec, 0) : way \in TrimmingWays, sec \in TrimmingSecs}
    /\ raised = FALSE
    /\ finished = FALSE
    /\ op = "init"
    /\ ret = EmptyPair
    /\ flushed = <<>>
    /\ last_commit = <<>>
    /\ lct_before = 0
    /\ inc = 0
    /\ max_inc = 0
    /\ inserted = 0
    /\ calls = 0
    /\ VACIdle
    /\ TranslationInit
    /\ HBIdle
    /\ ThreadsIdle

\* put_audiochunk_in_transcriber -> OnlineASRProcessor.insert_audio_chunk
InsertAudioChunk ==
    /\ ~raised /\ ~finished
    /\ calls < MaxCalls
    /\ \E n \in 1..MaxChunk :
         /\ Len(online.audio_buffer) + n <= MaxAudio
         /\ online' = insert_audio_chunk(online, [i \in 1..n |-> inserted + i - 1])
         /\ inc' = inc + n
         /\ inserted' = inserted + n
    /\ op' = "insert_audio_chunk"
    /\ UNCHANGED <<raised, finished, ret, flushed, last_commit, lct_before,
                   max_inc, calls>>
    /\ UNCHANGED callVars
    /\ UNCHANGED <<vacVars, trVars, hbVars, raceVars, mainVars, fnVars>>

WillTranscribe == Len(online.audio_buffer) # online.len_audio_buffer_last_transcribed

\* main_loop: o, incomplete = transcriber.process_iter()
ProcessIter ==
    /\ ~raised /\ ~finished
    /\ WillTranscribe => calls < MaxCalls
    /\ \E h \in IF WillTranscribe THEN Hypotheses(Len(online.audio_buffer))
                ELSE {<<>>} :
         \E r \in {process_iter(online, h)} :
             /\ online' = r.p
             /\ ret' = r.ret
             /\ raised' = r.raised
             /\ flushed' = flushed \o r.commit
             /\ last_commit' = r.commit
             /\ lct_before' = online.transcript_buffer.last_commited_time
             /\ calls' = IF r.called THEN calls + 1 ELSE calls
             /\ invoked' = r.called
    /\ UNCHANGED <<chunk_t, chunk_rep>>
    /\ op' = "process_iter"
    /\ inc' = 0
    /\ max_inc' = Max(max_inc, inc)
    /\ UNCHANGED <<finished, inserted>>
    /\ UNCHANGED <<vacVars, trVars, hbVars, raceVars, mainVars, fnVars>>

\* the end of the utterance: finish()
Finish ==
    /\ ~raised /\ ~finished
    /\ WillTranscribe => calls < MaxCalls
    /\ \E h \in IF WillTranscribe THEN Hypotheses(Len(online.audio_buffer))
                ELSE {<<>>} :
         \E r \in {finish(online, h)} :
             /\ online' = r.p
             /\ ret' = r.ret
             /\ calls' = IF r.called THEN calls + 1 ELSE calls
             /\ invoked' = r.called
    /\ UNCHANGED <<chunk_t, chunk_rep>>
    /\ finished' = TRUE
    /\ op' = "finish"
    /\ UNCHANGED <<raised, flushed, last_commit, lct_before, inc, max_inc,
                   inserted>>
    /\ UNCHANGED <<vacVars, trVars, hbVars, raceVars, mainVars, fnVars>>

Next == InsertAudioChunk \/ ProcessIter \/ Finish

Spec == Init /\ [][Next]_vars

\* ------------------------------- process_iter and the hypotheses it is given
\* one trimming configuration, in which no trimming happens within MaxAudio
InitAgreement ==
    /\ Init
    /\ online.buffer_trimming_way = "segment" /\ online.buffer_trimming_sec = 2

\* process_iter, with the hypothesis of this ASR call and of the one before
ProcessIterHeard ==
    /\ ~raised
    /\ WillTranscribe => calls < MaxCalls
    /\ \E h \in IF WillTranscribe THEN Hypotheses(Len(online.audio_buffer))
                ELSE {<<>>} :
         \E r \in {process_iter(online, h)} :
             /\ online' = r.p
             /\ ret' = r.ret
             /\ raised' = r.raised
             /\ flushed' = flushed \o r.commit
             /\ last_commit' = r.commit
             /\ lct_before' = online.transcript_buffer.last_commited_time
             /\ calls' = IF r.called THEN calls + 1 ELSE calls
             /\ invoked' = r.called
             /\ asr_h' = IF r.called THEN h ELSE asr_h
             /\ asr_prev' = IF r.called THEN asr_h ELSE asr_prev
    /\ op' = "process_iter"
    /\ inc' = 0
    /\ max_inc' = Max(max_inc, inc)
    /\ UNCHANGED <<finished, inserted, chunk_t, chunk_rep, fn_in, fn_out>>
    /\ UNCHANGED <<vac, utt_start, utt_end, forwarded, phase>>
    /\ UNCHANGED <<trVars, hbVars, raceVars, mainVars>>

NextAgreement == InsertAudioChunk \/ ProcessIterHeard

SpecAgreement == InitAgreement /\ [][NextAgreement]_vars

\* ------------------------- process_iter on audio that grows block by block
\* segment mode, buffer_trimming_sec reached with the block number TrimSec
InitTrim ==
    /\ online = OnlineInit("segment", TrimSec, 0)
    /\ raised = FALSE /\ finished = FALSE /\ op = "init" /\ ret = EmptyPair
    /\ flushed = <<>> /\ last_commit = <<>> /\ lct_before = 0
    /\ inc = 0 /\ max_inc = 0 /\ inserted = 0 /\ calls = 0
    /\ VACIdle
    /\ TranslationInit
    /\ HBIdle
    /\ ThreadsIdle

\* insert_audio_chunk of one block, up to TrimAudio blocks in all
InsertBlock ==
    /\ ~raised
    /\ inserted < TrimAudio
    /\ online' = insert_audio_chunk(online, <<inserted>>)
    /\ inc' = inc + 1
    /\ inserted' = inserted + 1
    /\ op' = "insert_audio_chunk"
    /\ UNCHANGED <<raised, finished, ret, flushed, last_commit, lct_before,
                   max_inc, calls>>
    /\ UNCHANGED <<vacVars, trVars, callVars, hbVars, raceVars, mainVars, fnVars>>

\* process_iter when audio has arrived since the last one
ProcessIterTrim ==
    /\ ~raised
    /\ WillTranscribe
    /\ \E h \in Hypotheses(Len(online.audio_buffer)) :
         \E r \in {process_iter(online, h)} :
             /\ online' = r.p
             /\ ret' = r.ret
             /\ raised' = r.raised
             /\ flushed' = flushed \o r.commit
             /\ last_commit' = r.commit
             /\ lct_before' = online.transcript_buffer.last_commited_time
             /\ calls' = calls + 1
             /\ invoked' = r.called
    /\ op' = "process_iter"
    /\ inc' = 0
    /\ max_inc' = Max(max_inc, inc)
    /\ UNCHANGED <<finished, inserted, chunk_t, chunk_rep>>
    /\ UNCHANGED <<vacVars, trVars, hbVars, raceVars, mainVars, fnVars>>

NextTrim == InsertBlock \/ ProcessIterTrim

SpecTrim == InitTrim /\ [][NextTrim]_vars

\* ------------------------------------- chunk_at with the times as floats
\* int(cut_seconds * self.SAMPLING_RATE) of chunk_at, the times being floats:
\* the difference time - buffer_time_offset and its product with the rate are
\* rounded, and where the product falls short of the whole number exact that
\* the times stand for, int() gives one less (offset 0.02, time 0.04 + 0.02:
\* int((0.06 - 0.02) * 16000) is 639); it never gives more, and 0 for 0
IntOfFloat(exact) ==
    IF exact > 0 THEN {exact - 1, exact}
    ELSE IF exact < 0 THEN {exact, exact + 1}
    ELSE {0}

\* process_iter, with the audio slice of its chunk_at taken at int() of the
\* float product; buffer_time_offset is set to the time itself
ProcessIterFloat ==
    /\ ~raised /\ ~finished
    /\ WillTranscribe => calls < MaxCalls
    /\ \E h \in IF WillTranscribe THEN Hypotheses(Len(online.audio_buffer))
                ELSE {<<>>} :
         \E r \in {process_iter(online, h)} :
             /\ \E cut \in IntOfFloat((r.p.buffer_time_offset
                                         - online.buffer_time_offset) * SAMPLING_RATE) :
                   online' = [r.p EXCEPT !.audio_buffer =
                                 SliceFrom(online.audio_buffer, cut)]
             /\ ret' = r.ret
             /\ raised' = r.raised
             /\ flushed' = flushed \o r.commit
             /\ last_commit' = r.commit
             /\ lct_before' = online.transcript_buffer.last_commited_time
             /\ calls' = IF r.called THEN calls + 1 ELSE calls
             /\ invoked' = r.called
    /\ UNCHANGED <<chunk_t, chunk_rep>>
    /\ op' = "process_iter"
    /\ inc' = 0
    /\ max_inc' = Max(max_inc, inc)
    /\ UNCHANGED <<finished, inserted>>
    /\ UNCHANGED <<vacVars, trVars, hbVars, raceVars, mainVars, fnVars>>

NextFloat == InsertAudioChunk \/ ProcessIterFloat

SpecFloat == Init /\ [][NextFloat]_vars

\* ------------------------------------------ the external ASR call raising
\* process_iter in which self.asr.transcribe raises: transcribe_audio_buffer has
\* recorded the buffer length before the call, nothing catches the exception
\* below main_loop, whose inner except logs and re-raises it
TranscribeRaises ==
    /\ ~raised /\ ~finished
    /\ WillTranscribe
    /\ calls < MaxCalls
    /\ Len(faults) < MaxFaults
    /\ online' = transcribe_audio_buffer(online, <<>>).p
    /\ raised' = TRUE
    /\ calls' = calls + 1
    /\ invoked' = TRUE
    /\ faults' = Append(faults, [kind |-> "transcribe", T |-> 0, s |-> 0])
    /\ op' = "process_iter"
    /\ inc' = 0
    /\ max_inc' = Max(max_inc, inc)
    /\ UNCHANGED <<finished, ret, flushed, last_commit, lct_before, inserted>>
    /\ UNCHANGED <<chunk_t, chunk_rep, main_pc>>
    /\ UNCHANGED <<vacVars, trVars, hbVars, raceVars, fnVars>>

NextASRFault == Next \/ TranscribeRaises

SpecASRFault == Init /\ [][NextASRFault]_vars

\* ------------------------------- chunk_at called on a processor in use
InitChunk ==
    /\ online \in {OnlineInit(way, 1, 0) : way \in TrimmingWays}
    /\ raised = FALSE /\ finished = FALSE /\ op = "init" /\ ret = EmptyPair
    /\ flushed = <<>> /\ last_commit = <<>> /\ lct_before = 0
    /\ inc = 0 /\ max_inc = 0 /\ inserted = 0 /\ calls = 0
    /\ VACIdle
    /\ TranslationInit
    /\ HBIdle
    /\ ThreadsIdle

\* chunk_at(time) on the processor as main_loop has left it
ChunkAt ==
    /\ ~raised /\ ~finished
    /\ \E time \in 0..MaxAudio :
         /\ online' = chunk_at(online, time)
         /\ chunk_t' = time
         /\ chunk_rep' = IF chunk_t = time THEN Min(chunk_rep + 1, 2) ELSE 1
    /\ op' = "chunk_at"
    /\ UNCHANGED <<raised, finished, ret, flushed, last_commit, lct_before,
                   inc, max_inc, inserted, calls, invoked>>
    /\ UNCHANGED <<vacVars, trVars, hbVars, raceVars, mainVars, fnVars>>

NextChunk == (chunk_t = None /\ Next) \/ ChunkAt

SpecChunk == InitChunk /\ [][NextChunk]_vars

\* ------------------------------------- hypotheses long enough to be dropped
\* hypotheses of LongWords words, one of two short texts at each place, all at
\* the start of the buffer
LongHypotheses ==
    {[i \in 1..LongWords |-> <<0, 0, t[i]>>] :
        t \in [1..LongWords -> {TextA, <<"b">>}]}

\* main_loop: o, incomplete = transcriber.process_iter(), the hypothesis kept
ProcessIterLong ==
    /\ ~raised /\ ~finished
    /\ WillTranscribe => calls < MaxCalls
    /\ \E h \in IF WillTranscribe
                THEN Hypotheses(Len(online.audio_buffer)) \cup LongHypotheses
                ELSE {<<>>} :
         \E r \in {process_iter(online, h)} :
             /\ online' = r.p
             /\ ret' = r.ret
             /\ raised' = r.raised
             /\ flushed' = flushed \o r.commit
             /\ last_commit' = r.commit
             /\ lct_before' = online.transcript_buffer.last_commited_time
             /\ calls' = IF r.called THEN calls + 1 ELSE calls
             /\ invoked' = r.called
             /\ asr_h' = IF r.called THEN h ELSE asr_h
    /\ UNCHANGED <<chunk_t, chunk_rep>>
    /\ op' = "process_iter"
    /\ inc' = 0
    /\ max_inc' = Max(max_inc, inc)
    /\ UNCHANGED <<finished, inserted>>
    /\ UNCHANGED <<vac, utt_start, utt_end, forwarded, phase>>
    /\ UNCHANGED <<trVars, hbVars, raceVars, mainVars, fnVars>>

NextRepetition == InsertAudioChunk \/ ProcessIterLong

SpecRepetition == InitChunk /\ [][NextRepetition]_vars

\* ------------------- the audio thread and the transcription thread at once
InitRace == ASRIdle /\ VACIdle /\ TranslationInit /\ HBIdle /\ ThreadsIdle

\* the audio thread in insert_audio_chunk: np.append(self.audio_buffer, audio)
\* has built the new array from the buffer it read
AudioAppend ==
    /\ audio_pc = "idle"
    /\ \E n \in 1..MaxChunk :
         /\ inserted + n <= MaxStream
         /\ audio_local' =
               insert_audio_chunk(online, [i \in 1..n |-> inserted + i - 1]).audio_buffer
         /\ inserted' = inserted + n
    /\ audio_pc' = "store"
    /\ UNCHANGED <<online, raised, finished, op, ret, flushed, last_commit,
                   lct_before, inc, max_inc, calls>>
    /\ UNCHANGED <<trim_pc, trim_local, trim_time, trimmed, iter_pc>>
    /\ UNCHANGED <<vacVars, trVars, callVars, hbVars, mainVars, fnVars>>

\* the audio thread in insert_audio_chunk: self.audio_buffer = ...
AudioStore ==
    /\ audio_pc = "store"
    /\ online' = [online EXCEPT !.audio_buffer = audio_local]
    /\ audio_pc' = "idle"
    /\ op' = "insert_audio_chunk"
    /\ UNCHANGED <<raised, finished, ret, flushed, last_commit, lct_before,
                   inc, max_inc, inserted, calls>>
    /\ UNCHANGED <<audio_local, trim_pc, trim_local, trim_time, trimmed, iter_pc>>
    /\ UNCHANGED <<vacVars, trVars, callVars, hbVars, mainVars, fnVars>>

\* the transcription thread in chunk_at(time), time within the audio held:
\* pop_commited is done and self.audio_buffer[int(cut_seconds * SR):] is sliced
\* from the buffer it read
TrimSlice ==
    /\ trim_pc = "idle"
    /\ \E time \in (online.buffer_time_offset + 1)
                    ..(online.buffer_time_offset + Len(online.audio_buffer)) :
         /\ trim_local' = chunk_at(online, time).audio_buffer
         /\ trim_time' = time
         /\ trimmed' = trimmed + (time - online.buffer_time_offset)
         /\ online' = [online EXCEPT !.transcript_buffer = pop_commited(@, time)]
    /\ trim_pc' = "store"
    /\ UNCHANGED <<raised, finished, op, ret, flushed, last_commit, lct_before,
                   inc, max_inc, inserted, calls>>
    /\ UNCHANGED <<audio_pc, audio_local, iter_pc>>
    /\ UNCHANGED <<vacVars, trVars, callVars, hbVars, mainVars, fnVars>>

\* the transcription thread in chunk_at: self.audio_buffer = ... and
\* self.buffer_time_offset = time
TrimStore ==
    /\ trim_pc = "store"
    /\ online' = [online EXCEPT !.audio_buffer = trim_local,
                                !.buffer_time_offset = trim_time]
    /\ trim_pc' = "idle"
    /\ op' = "chunk_at"
    /\ UNCHANGED <<raised, finished, ret, flushed, last_commit, lct_before,
                   inc, max_inc, inserted, calls>>
    /\ UNCHANGED <<audio_pc, audio_local, trim_local, trim_time, trimmed, iter_pc>>
    /\ UNCHANGED <<vacVars, trVars, callVars, hbVars, mainVars, fnVars>>

NextRace == AudioAppend \/ AudioStore \/ TrimSlice \/ TrimStore

SpecRace == InitRace /\ [][NextRace]_vars

\* ------------------------------------------- a HypothesisBuffer on its own
InitHB == ASRIdle /\ VACIdle /\ TranslationInit /\ HBIdle /\ ThreadsIdle

\* insert(h, offset) followed by flush()
HBInsertFlush ==
    /\ Len(hbuf.commited_in_buffer) <= MaxCommitted
    /\ \E h \in Hypotheses(MaxTime), offset \in 0..MaxOffset :
         \E r \in {Flush(Insert(hbuf, h, offset))},
            same \in {hb_rep > 0 /\ hb_H = <<h, offset>>} :
             /\ hbuf' = r.hb
             /\ hb_last' = r.commit
             /\ hb_H' = <<h, offset>>
             /\ hb_rep' = IF same THEN Min(hb_rep + 1, 3) ELSE 1
             /\ hb_first' = IF same THEN hb_first ELSE r.commit
             /\ hb_was_empty' = IF same THEN hb_was_empty ELSE hbuf.buffer = <<>>
    /\ UNCHANGED <<asrVars, vacVars, trVars, callVars, raceVars, mainVars, fnVars>>

\* pop_commited(time), as chunk_at calls it between two iterations
HBPopCommited ==
    /\ hbuf.commited_in_buffer # <<>>
    /\ \E time \in 0..(MaxTime + MaxOffset) :
         hbuf' = pop_commited(hbuf, time)
    /\ hb_rep' = 0
    /\ UNCHANGED <<hb_H, hb_first, hb_last, hb_was_empty>>
    /\ UNCHANGED <<asrVars, vacVars, trVars, callVars, raceVars, mainVars, fnVars>>

NextHB == HBInsertFlush \/ HBPopCommited

SpecHB == InitHB /\ [][NextHB]_vars

\* ------------------------ a HypothesisBuffer given hypotheses that repeat
\* insert(h, 0) followed by flush(), the words of h within MaxNear of time 0,
\* into a buffer of up to MaxRepeated committed words
HBInsertNear ==
    /\ Len(hbuf.commited_in_buffer) <= MaxRepeated
    /\ \E h \in Hypotheses(MaxNear) :
         \E r \in {Flush(Insert(hbuf, h, 0))},
            same \in {hb_rep > 0 /\ hb_H = <<h, 0>>} :
             /\ hbuf' = r.hb
             /\ hb_last' = r.commit
             /\ hb_H' = <<h, 0>>
             /\ hb_rep' = IF same THEN Min(hb_rep + 1, 3) ELSE 1
             /\ hb_first' = IF same THEN hb_first ELSE r.commit
             /\ hb_was_empty' = IF same THEN hb_was_empty ELSE hbuf.buffer = <<>>
    /\ UNCHANGED <<asrVars, vacVars, trVars, callVars, raceVars, mainVars, fnVars>>

NextNgram == HBInsertNear \/ HBPopCommited

SpecNgram == InitHB /\ [][NextNgram]_vars

\* ------------------------------------------ words_to_sentences on its own
InitFn == ASRIdle /\ VACIdle /\ TranslationInit /\ HBIdle /\ ThreadsIdle

\* texts with and without the marks the segmenter looks at
SegTexts ==
    {<<"a">>, <<"a", ".">>, <<"a", "?">>, <<".", "a">>, <<"3", ".">>,
     <<"a", ".", ".", ".">>, <<".", ".", ".">>, <<"a", ".", "b">>, <<"3", ".", "!">>}

\* lists of up to MaxSegWords words, the i-th from time i - 1 to time i
SegInputs ==
    UNION {{[i \in 1..k |-> <<i - 1, i, t[i]>>] : t \in [1..k -> SegTexts]} :
             k \in 0..MaxSegWords}

WordsToSentences ==
    /\ \E words \in SegInputs :
         /\ fn_in' = words
         /\ fn_out' = words_to_sentences(words)
    /\ op' = "words_to_sentences"
    /\ UNCHANGED <<online, raised, finished, ret, flushed, last_commit, lct_before,
                   inc, max_inc, inserted, calls, asr_prev>>
    /\ UNCHANGED <<vacVars, trVars, callVars, hbVars, raceVars, mainVars>>

NextSegmenter == WordsToSentences

SpecSegmenter == InitFn /\ [][NextSegmenter]_vars

\* ------------------------------------ VACOnlineASRProcessor under main_loop
\* what the VAD iterator may report for a chunk of n blocks: nothing, the start
\* of voice when there is none, or its end when there is, at a source index
\* within the chunk or up to MaxPad blocks before it; an end after its start
VADEvents(n) ==
    LET lo == Max(0, vac.buffer_offset - MaxPad)
        hi == vac.buffer_offset + n
    IN  {<<"None", None>>} \cup
        (IF vac.status = "voice"
         THEN {<<"end", t>> : t \in {u \in lo..hi : u > utt_start}}
         ELSE {<<"start", t>> : t \in lo..(hi - 1)})

VACHypotheses(n) == {h \in Hypotheses(n) : Len(h) <= 1}

InitVAC ==
    /\ online \in {OnlineInit(way, 2, 0) : way \in TrimmingWays}
    /\ raised = FALSE /\ finished = FALSE /\ op = "init" /\ ret = EmptyPair
    /\ flushed = <<>> /\ last_commit = <<>> /\ lct_before = 0
    /\ inc = 0 /\ max_inc = 0 /\ inserted = 0 /\ calls = 0
    /\ VACIdle
    /\ TranslationInit
    /\ HBIdle
    /\ ThreadsIdle

\* put_audiochunk_in_transcriber -> VACOnlineASRProcessor.insert_audio_chunk
VACInsertAudioChunk ==
    /\ ~raised
    /\ \E n \in 1..MaxChunk :
         /\ vac.buffer_offset + n <= MaxStream
         /\ \E res \in VADEvents(n) :
              \E r \in {vac_insert_audio_chunk(vac, online,
                           [i \in 1..n |-> vac.buffer_offset + i - 1], res)} :
                  /\ vac' = r.v
                  /\ online' = r.p
                  /\ utt_start' = IF res[1] = "start"
                                  THEN res[2] ELSE utt_start
                  /\ utt_end' = IF res[1] = "None" THEN utt_end
                                ELSE IF res[1] = "start" THEN None ELSE res[2]
                  /\ forwarded' = IF res[1] = "start"
                                  THEN r.sent ELSE forwarded \o r.sent
                  /\ phase' = IF res[1] = "None" THEN phase
                              ELSE IF res[1] = "end" THEN "ended"
                              ELSE IF phase \in {"ended", "restarted"}
                                   THEN "restarted" ELSE "idle"
                  /\ inc' = inc + Len(r.sent)
         /\ inserted' = inserted + n
    /\ op' = "insert_audio_chunk"
    /\ UNCHANGED <<raised, finished, ret, flushed, last_commit, lct_before,
                   max_inc, calls, asr_h>>
    /\ UNCHANGED callVars
    /\ UNCHANGED <<trVars, hbVars, raceVars, mainVars, fnVars>>

VACWillTranscribe ==
    /\ \/ vac.is_currently_final
       \/ vac.current_online_chunk_buffer_size > SAMPLING_RATE * vac.online_chunk_size
    /\ WillTranscribe

\* main_loop: o, incomplete = transcriber.process_iter()
VACProcessIter ==
    /\ ~raised
    /\ VACWillTranscribe => calls < MaxCallsVAC
    /\ \E h \in IF VACWillTranscribe THEN VACHypotheses(Len(online.audio_buffer))
                ELSE {<<>>} :
         \E r \in {vac_process_iter(vac, online, h)} :
             /\ vac' = r.v
             /\ online' = r.p
             /\ ret' = r.ret
             /\ raised' = r.raised
             /\ flushed' = flushed \o r.commit
             /\ last_commit' = r.commit
             /\ calls' = IF r.called THEN calls + 1 ELSE calls
             /\ asr_h' = IF r.called THEN h ELSE asr_h
             /\ invoked' = r.called
    /\ UNCHANGED <<chunk_t, chunk_rep>>
    /\ lct_before' = online.transcript_buffer.last_commited_time
    /\ phase' = IF phase = "ended" THEN "finished"
                ELSE IF phase = "restarted" THEN "idle" ELSE phase
    /\ op' = "process_iter"
    /\ inc' = 0
    /\ max_inc' = Max(max_inc, inc)
    /\ UNCHANGED <<finished, inserted, utt_start, utt_end, forwarded>>
    /\ UNCHANGED <<trVars, hbVars, raceVars, mainVars, fnVars>>

NextVAC == VACInsertAudioChunk \/ VACProcessIter

SpecVAC == InitVAC /\ [][NextVAC]_vars

\* ------------- the wrapper fed by the audio thread while process_iter runs
\* the wrapper's process_iter will call online.process_iter(), and that the ASR
VACIterates ==
    /\ ~vac.is_currently_final
    /\ vac.current_online_chunk_buffer_size > SAMPLING_RATE * vac.online_chunk_size
    /\ WillTranscribe

\* the transcription thread enters process_iter: transcribe_audio_buffer has
\* recorded the buffer length and self.asr.transcribe is running
VACIterBegin ==
    /\ ~raised
    /\ iter_pc = "idle"
    /\ VACIterates
    /\ calls < MaxCallsVAC
    /\ vac' = [vac EXCEPT !.current_online_chunk_buffer_size = 0]
    /\ online' = transcribe_audio_buffer(online, <<>>).p
    /\ calls' = calls + 1
    /\ invoked' = TRUE
    /\ iter_pc' = "transcribing"
    /\ inc' = 0
    /\ max_inc' = Max(max_inc, inc)
    /\ UNCHANGED <<raised, finished, op, ret, flushed, last_commit, lct_before,
                   inserted>>
    /\ UNCHANGED <<utt_start, utt_end, forwarded, phase, asr_h>>
    /\ UNCHANGED <<chunk_t, chunk_rep>>
    /\ UNCHANGED <<audio_pc, audio_local, trim_pc, trim_local, trim_time, trimmed>>
    /\ UNCHANGED <<trVars, hbVars, mainVars, fnVars>>

\* self.asr.transcribe returns h and process_iter runs to its end on the
\* fields as they are by then
VACIterEnd ==
    /\ iter_pc = "transcribing"
    /\ \E h \in VACHypotheses(MaxTime) :
         \E r \in {Checked(online, check_words(ts_words_shifted(online, h)), TRUE)} :
             /\ online' = r.p
             /\ ret' = r.ret
             /\ raised' = r.raised
             /\ flushed' = flushed \o r.commit
             /\ last_commit' = r.commit
             /\ asr_h' = h
    /\ lct_before' = online.transcript_buffer.last_commited_time
    /\ iter_pc' = "idle"
    /\ op' = "process_iter"
    /\ UNCHANGED <<finished, inc, max_inc, inserted, calls>>
    /\ UNCHANGED <<vac, utt_start, utt_end, forwarded, phase>>
    /\ UNCHANGED callVars
    /\ UNCHANGED <<audio_pc, audio_local, trim_pc, trim_local, trim_time, trimmed>>
    /\ UNCHANGED <<trVars, hbVars, mainVars, fnVars>>

\* the wrapper's process_iter on its other branches: finish(), the empty pair,
\* or online.process_iter() with no new audio
VACIterOther == iter_pc = "idle" /\ ~VACIterates /\ VACProcessIter

NextVACThreads ==
    VACInsertAudioChunk \/ VACIterBegin \/ VACIterEnd \/ VACIterOther

SpecVACThreads == InitVAC /\ [][NextVACThreads]_vars

\* ------------------------------------------ TranslationPipeline at work
InitTranslation == ASRIdle /\ VACIdle /\ TranslationInit /\ HBIdle /\ ThreadsIdle

\* the k-th transcription segment main_loop hands over: (beg, end, text)
Segment(k) == <<k, k, <<"t", k>>>>

\* TranslationPipeline.start
Start ==
    /\ pc = "not started"
    /\ should_run' = TRUE
    /\ pc' = "loop"
    /\ UNCHANGED <<translation_queue, task, queue_size, next_T, output_streams,
                   submitted, reached, handled, first_get, stop_pc,
                   original_output_streams, stopped>>
    /\ UNCHANGED <<asrVars, vacVars, callVars, hbVars, raceVars, mainVars, fnVars>>

\* TranslationPipeline.put_text, called by main_loop until it leaves its loop
PutText ==
    /\ stop_pc = "none"
    /\ Len(submitted) < MaxPuts
    /\ \E is_complete \in BOOLEAN :
         LET transcription_segment == Segment(Len(submitted) + 1)
         IN  /\ original_output_streams' =
                    Append(original_output_streams,
                           <<transcription_segment[3], is_complete>>)
             /\ translation_queue' =
                    QueuePut(translation_queue, <<transcription_segment, is_complete>>)
             /\ submitted' = Append(submitted, <<transcription_segment, is_complete>>)
    /\ UNCHANGED <<should_run, pc, task, queue_size, next_T, output_streams,
                   reached, handled, first_get, stop_pc, stopped>>
    /\ UNCHANGED <<asrVars, vacVars, callVars, hbVars, raceVars, mainVars, fnVars>>

\* a translation thread whose loop does not test should_run
WorkerCheck_Forever ==
    /\ pc = "loop"
    /\ pc' = "get"
    /\ UNCHANGED <<translation_queue, should_run, task, queue_size, next_T,
                   output_streams, submitted, reached, handled, first_get, stop_pc,
                   original_output_streams, stopped>>
    /\ UNCHANGED <<asrVars, vacVars, callVars, hbVars, raceVars, mainVars, fnVars>>

\* _translation_thread: while self.should_run
WorkerCheck ==
    /\ pc = "loop"
    /\ pc' = IF should_run THEN "get" ELSE "done"
    /\ UNCHANGED <<translation_queue, should_run, task, queue_size, next_T,
                   output_streams, submitted, reached, handled, first_get, stop_pc,
                   original_output_streams, stopped>>
    /\ UNCHANGED <<asrVars, vacVars, callVars, hbVars, raceVars, mainVars, fnVars>>

\* _translation_thread: translation_queue.get(timeout=1) gives a task
WorkerGet ==
    /\ pc = "get"
    /\ translation_queue # <<>>
    /\ task' = QueueGet(translation_queue).task
    /\ translation_queue' = QueueGet(translation_queue).rest
    /\ reached' = {}
    /\ first_get' = IF first_get = None THEN Len(submitted) ELSE first_get
    /\ pc' = "measure"
    /\ UNCHANGED <<should_run, queue_size, next_T, output_streams, submitted,
                   handled, stop_pc, original_output_streams, stopped>>
    /\ UNCHANGED <<asrVars, vacVars, callVars, hbVars, raceVars, mainVars, fnVars>>

\* _translation_thread: the get times out (queue.Empty), sleep, continue
WorkerEmpty ==
    /\ pc = "get"
    /\ translation_queue = <<>>
    /\ pc' = "loop"
    /\ UNCHANGED <<translation_queue, should_run, task, queue_size, next_T,
                   output_streams, submitted, reached, handled, first_get, stop_pc,
                   original_output_streams, stopped>>
    /\ UNCHANGED <<asrVars, vacVars, callVars, hbVars, raceVars, mainVars, fnVars>>

\* _translation_thread: queue_size = qsize() and the branch taken on it
WorkerMeasure ==
    /\ pc = "measure"
    /\ queue_size' = Len(translation_queue)
    /\ IF ShouldDispatch(task[2], Len(translation_queue))
       THEN /\ pc' = "translate"
            /\ next_T' = 1
            /\ UNCHANGED handled
       ELSE /\ pc' = "loop"
            /\ handled' = Append(handled, [task |-> task,
                                           queue_size |-> Len(translation_queue),
                                           reached |-> reached])
            /\ UNCHANGED next_T
    /\ UNCHANGED <<translation_queue, should_run, task, output_streams, submitted,
                   reached, first_get, stop_pc, original_output_streams, stopped>>
    /\ UNCHANGED <<asrVars, vacVars, callVars, hbVars, raceVars, mainVars, fnVars>>

\* _translation_thread: one turn of  for T in self.translators
WorkerTranslate ==
    /\ pc = "translate"
    /\ output_streams' =
          [output_streams EXCEPT ![next_T] =
              translate_to_output(@, next_T, task[1][3], task[2])]
    /\ reached' = reached \cup
          {T \in Translators : output_streams'[T] # output_streams[T]}
    /\ IF next_T = NumTranslators
       THEN /\ pc' = "loop"
            /\ handled' = Append(handled, [task |-> task,
                                           queue_size |-> queue_size,
                                           reached |-> reached'])
            /\ UNCHANGED next_T
       ELSE /\ next_T' = next_T + 1
            /\ UNCHANGED <<pc, handled>>
    /\ UNCHANGED <<translation_queue, should_run, task, queue_size, submitted,
                   first_get, stop_pc, original_output_streams, stopped>>
    /\ UNCHANGED <<asrVars, vacVars, callVars, hbVars, raceVars, mainVars, fnVars>>

\* TranslationPipeline.stop up to translation_thread.join()
Stop ==
    /\ stop_pc = "none"
    /\ should_run
    /\ stopped' = stopped \cup {0}
    /\ should_run' = FALSE
    /\ stop_pc' = "join"
    /\ UNCHANGED <<translation_queue, pc, task, queue_size, next_T, output_streams,
                   submitted, reached, handled, first_get, original_output_streams>>
    /\ UNCHANGED <<asrVars, vacVars, callVars, hbVars, raceVars, mainVars, fnVars>>

\* TranslationPipeline.stop once the thread has ended: T.stop() for every T
StopJoined ==
    /\ stop_pc = "join"
    /\ pc = "done"
    /\ stopped' = stopped \cup Translators
    /\ stop_pc' = "done"
    /\ UNCHANGED <<translation_queue, should_run, pc, task, queue_size, next_T,
                   output_streams, submitted, reached, handled, first_get,
                   original_output_streams>>
    /\ UNCHANGED <<asrVars, vacVars, callVars, hbVars, raceVars, mainVars, fnVars>>

NextTranslation ==
    \/ Start \/ PutText \/ WorkerCheck \/ WorkerGet \/ WorkerEmpty
    \/ WorkerMeasure \/ WorkerTranslate \/ Stop \/ StopJoined

SpecTranslation == InitTranslation /\ [][NextTranslation]_vars

\* the translation thread is scheduled again and again, the get returns or times
\* out, the model calls return; stop(), once in join(), returns from it when
\* the thread has ended
FairTranslation ==
    /\ WF_vars(WorkerCheck) /\ WF_vars(WorkerGet) /\ WF_vars(WorkerEmpty)
    /\ WF_vars(WorkerMeasure) /\ WF_vars(WorkerTranslate)
    /\ WF_vars(StopJoined)

SpecTranslationFair == SpecTranslation /\ FairTranslation

\* ------------------------- main_loop and the pipeline, exceptions included
\* initialize() has called translation_pipeline.start()
Started == pc # "not started"

\* main_loop: translation_pipeline.put_text(...) inside the while loop
MainPutText == main_pc = "running" /\ Started /\ PutText

\* put_text: write() of a source-language sink raises; put_text has no try, the
\* inner except of main_loop re-raises and the outer one leads to finally
PutTextSinkRaises ==
    /\ main_pc = "running" /\ Started
    /\ stop_pc = "none"
    /\ Len(submitted) < MaxPuts
    /\ Len(faults) < MaxFaults
    /\ faults' = Append(faults, [kind |-> "source sink", T |-> 0, s |-> 1])
    /\ main_pc' = "finally"
    /\ UNCHANGED trVars
    /\ UNCHANGED <<asrVars, vacVars, callVars, hbVars, raceVars, fnVars>>

\* _translation_thread: self.prepare(text_segment[2]) raises; nothing in the
\* thread catches it and the thread ends
WorkerPrepareRaises ==
    /\ pc = "measure"
    /\ ShouldDispatch(task[2], Len(translation_queue))
    /\ Len(faults) < MaxFaults
    /\ queue_size' = Len(translation_queue)
    /\ faults' = Append(faults, [kind |-> "prepare", T |-> 0, s |-> 0])
    /\ pc' = "dead"
    /\ UNCHANGED <<translation_queue, should_run, task, next_T, output_streams,
                   submitted, reached, handled, first_get, stop_pc,
                   original_output_streams, stopped>>
    /\ UNCHANGED <<main_pc, fnVars>>
    /\ UNCHANGED <<asrVars, vacVars, callVars, hbVars, raceVars, fnVars>>

\* one turn of  for T in self.translators  in which the model call raises: the
\* except branch returns the sentinel and translate_to_output writes it
WorkerTranslateError ==
    /\ pc = "translate"
    /\ Len(faults) < MaxFaults
    /\ faults' = Append(faults, [kind |-> "model", T |-> next_T, s |-> 0])
    /\ output_streams' =
          [output_streams EXCEPT ![next_T] =
              WriteUntil(@, translate_prepared_text(next_T, task[1][3], TRUE),
                         task[2], 0)]
    /\ reached' = reached \cup {next_T}
    /\ IF next_T = NumTranslators
       THEN /\ pc' = "loop"
            /\ handled' = Append(handled, [task |-> task,
                                           queue_size |-> queue_size,
                                           reached |-> reached'])
            /\ UNCHANGED next_T
       ELSE /\ next_T' = next_T + 1
            /\ UNCHANGED <<pc, handled>>
    /\ UNCHANGED <<translation_queue, should_run, task, queue_size, submitted,
                   first_get, stop_pc, original_output_streams, stopped>>
    /\ UNCHANGED <<main_pc, fnVars>>
    /\ UNCHANGED <<asrVars, vacVars, callVars, hbVars, raceVars, fnVars>>

\* one turn of  for T in self.translators  in which write() of one of the
\* translator's streams raises: translate_to_output has no try, nor has the
\* thread, which ends
WorkerSinkRaises ==
    /\ pc = "translate"
    /\ Len(faults) < MaxFaults
    /\ \E failing \in Streams :
         /\ faults' = Append(faults, [kind |-> "sink", T |-> next_T, s |-> failing])
         /\ output_streams' =
               [output_streams EXCEPT ![next_T] =
                   WriteUntil(@, translate_prepared_text(next_T, task[1][3], FALSE),
                              task[2], failing)]
    /\ reached' = reached \cup
          {T \in Translators : output_streams'[T] # output_streams[T]}
    /\ pc' = "dead"
    /\ UNCHANGED <<translation_queue, should_run, task, queue_size, next_T,
                   submitted, handled, first_get, stop_pc,
                   original_output_streams, stopped>>
    /\ UNCHANGED <<main_pc, fnVars>>
    /\ UNCHANGED <<asrVars, vacVars, callVars, hbVars, raceVars, fnVars>>

\* the signal handler has cleared translation_loop_running: the while loop ends
LoopEnds ==
    /\ main_pc = "running" /\ Started
    /\ main_pc' = "finally"
    /\ UNCHANGED <<faults, fnVars>>
    /\ UNCHANGED <<asrVars, vacVars, trVars, callVars, hbVars, raceVars, fnVars>>

\* finally: audio_source.stop()
AudioSourceStop ==
    /\ main_pc = "finally"
    /\ main_pc' = "audio stopped"
    /\ UNCHANGED <<faults, fnVars>>
    /\ UNCHANGED <<asrVars, vacVars, trVars, callVars, hbVars, raceVars, fnVars>>

\* finally: transcriber.close()
TranscriberClose ==
    /\ main_pc = "audio stopped"
    /\ main_pc' = "transcriber closed"
    /\ UNCHANGED <<faults, fnVars>>
    /\ UNCHANGED <<asrVars, vacVars, trVars, callVars, hbVars, raceVars, fnVars>>

\* finally: translation_pipeline.stop()
PipelineStop == main_pc = "transcriber closed" /\ Stop

\* stop: join() returns at once when the thread has ended with an exception
StopJoinedDead ==
    /\ stop_pc = "join"
    /\ pc = "dead"
    /\ stopped' = stopped \cup Translators
    /\ stop_pc' = "done"
    /\ UNCHANGED <<translation_queue, should_run, pc, task, queue_size, next_T,
                   output_streams, submitted, reached, handled, first_get,
                   original_output_streams>>
    /\ UNCHANGED <<asrVars, vacVars, callVars, hbVars, raceVars, mainVars, fnVars>>

NextPipeline ==
    \/ Start \/ MainPutText \/ WorkerCheck \/ WorkerGet \/ WorkerEmpty
    \/ WorkerMeasure \/ WorkerTranslate
    \/ PutTextSinkRaises \/ WorkerPrepareRaises \/ WorkerTranslateError
    \/ WorkerSinkRaises
    \/ LoopEnds \/ AudioSourceStop \/ TranscriberClose \/ PipelineStop
    \/ StopJoined \/ StopJoinedDead

SpecPipeline == InitTranslation /\ [][NextPipeline]_vars

\* ------------------------------------------------------------ properties
\* the words flush() returned before the last process_iter
Earlier == SubSeq(flushed, 1, Len(flushed) - Len(last_commit))

NonDecreasingEnds(ws) == \A i \in 1..(Len(ws) - 1) : ws[i][2] <= ws[i + 1][2]

C2_NoLoss ==
    finished =>
        \A i \in 1..Len(flushed) :
            Count(flushed[i], online.final_transcript) = Count(flushed[i], flushed)

\* the intervals of two words share more than a point
Overlap(w, v) == Max(w[1], v[1]) < Min(w[2], v[2])

\* C3 as claimed: a word committed by an iteration never overlaps a word with
\* a different text that an earlier iteration committed.
C3_StableCommit ==
    \A i \in 1..Len(Earlier) : \A j \in 1..Len(last_commit) :
        Earlier[i][3] # last_commit[j][3] => ~Overlap(Earlier[i], last_commit[j])

\* C3 amended: a word committed by a later iteration starts later than 0.1 s
\* before the end of the word committed last before that iteration; only that
\* far can it reach back into committed words.
C3_CommitStartsWithinTolerance ==
    \A j \in 1..Len(last_commit) : last_commit[j][1] > lct_before - Tenth

\* C3 witness: a later iteration commits a word that starts before the end of
\* the word committed last, with another text.
C3_Witness ==
    /\ Len(Earlier) > 0
    /\ \E j \in 1..Len(last_commit) :
         /\ last_commit[j][1] < lct_before
         /\ last_commit[j][3] # Earlier[Len(Earlier)][3]

\* C4 as claimed: after every process_iter the audio buffer is no longer than
\* buffer_trimming_sec plus the audio inserted between two process_iter calls.
C4_BoundedAudioWindow ==
    (op = "process_iter" /\ ~raised) =>
        Len(online.audio_buffer)
            <= online.buffer_trimming_sec * SAMPLING_RATE + max_inc

\* C5 as claimed: after a process_iter that returns a non-empty committed
\* segment the audio buffer is no longer than buffer_trimming_sec plus the
\* audio inserted for one ASR invocation.
C5_BoundedAudioAfterCommit ==
    (op = "process_iter" /\ ~raised /\ ret[1] # EmptySeg) =>
        Len(online.audio_buffer)
            <= online.buffer_trimming_sec * SAMPLING_RATE + max_inc

\* C6: the prompt never has more than 200 characters.
C6_PromptCap == Len(online.promt) <= PromptCap

\* C6 witness: a prompt cut to the cap after more than 200 characters of
\* completed text.
C6_Witness ==
    /\ Len(online.promt) = PromptCap
    /\ Len(Join(<<>>, TextsOf(online.final_transcript))) > PromptCap

\* C9: once the VAD has reported the start s and then the end e of an utterance,
\* every block forwarded to the wrapped processor for it has a source index in
\* [s, e): nothing from before the start, nothing from the end onwards.
C9_TransitionPurity ==
    (utt_start # None /\ utt_end # None) =>
        \A i \in 1..Len(forwarded) :
            utt_start <= forwarded[i] /\ forwarded[i] < utt_end

\* C10: the process_iter that follows a VAD end event returns what finish() of
\* the wrapped processor returns and leaves the processor as finish() leaves it,
\* with is_currently_final false and the chunk counter 0; and as long as no VAD
\* event follows, every further process_iter returns the empty pair and leaves
\* the wrapper and the processor alone.
C10_EndOfUtterance ==
    [][ /\ (phase \in {"ended", "restarted"} /\ op' = "process_iter") =>
             /\ ret' = finish(online, asr_h').ret
             /\ online' = finish(online, asr_h').p
             /\ vac'.is_currently_final = FALSE
             /\ vac'.current_online_chunk_buffer_size = 0
        /\ (phase = "finished" /\ op' = "process_iter") =>
             /\ ret' = EmptyPair
             /\ vac' = vac
             /\ online' = online ]_vars

\* an end event was followed by a process_iter that returned a non-empty
\* remainder, and the call after it returned the empty pair
C10_Witness ==
    /\ phase = "finished"
    /\ op = "process_iter"
    /\ ret = EmptyPair
    /\ utt_end # None
    /\ asr_h # <<>>
    /\ online.audio_buffer = <<>>

IsPrefix(a, b) == Len(a) <= Len(b) /\ SubSeq(b, 1, Len(a)) = a
IsComplete(x) == x[2]
\* what a stream of translator T shows once every complete segment submitted so
\* far has been translated, in submission order
CompleteExpected(T) ==
    LET c == SelectSeq(submitted, IsComplete)
    IN  [i \in 1..Len(c) |-> <<Translate(T, c[i][1][3]), TRUE>>]

\* C7: on every output stream of every target language the complete translations
\* appear in the order their segments were submitted: they are the translations
\* of the first complete segments submitted, in that order.
C7_TranslationOrdering ==
    \A T \in Translators : \A st \in Streams :
        IsPrefix(SelectSeq(output_streams[T][st], IsComplete), CompleteExpected(T))

\* every stream shows two complete translations, around a submitted incomplete one
C7_Witness ==
    /\ \A T \in Translators : \A st \in Streams :
          Len(SelectSeq(output_streams[T][st], IsComplete)) >= 2
    /\ Len(submitted) >= 3
    /\ submitted[1][2] /\ ~submitted[2][2] /\ submitted[3][2]

\* the tasks were enqueued as incomplete, incomplete, complete before the
\* translation thread dequeued anything
StaleScenario ==
    /\ first_get # None /\ first_get >= 3
    /\ ~submitted[1][2] /\ ~submitted[2][2] /\ submitted[3][2]

\* C8: a dequeued task reaches every translator if it is complete or the queue
\* was empty when its size was measured after the dequeue, and reaches none
\* otherwise; with two incomplete segments and then a complete one enqueued
\* before the thread runs, only the third reaches the translators.
C8_DropPolicy ==
    /\ \A i \in 1..Len(handled) :
          handled[i].reached =
             IF handled[i].task[2] \/ handled[i].queue_size = 0
             THEN Translators ELSE {}
    /\ StaleScenario =>
          \A i \in 1..Min(3, Len(handled)) :
             /\ handled[i].task = submitted[i]
             /\ handled[i].reached = IF i = 3 THEN Translators ELSE {}

\* the thread is done with the three tasks of the scenario
C8_Witness ==
    /\ StaleScenario
    /\ Len(handled) >= 3
    /\ handled[1].reached = {} /\ handled[2].reached = {}
    /\ handled[3].reached = Translators
    /\ \A T \in Translators : \A st \in Streams :
          output_streams[T][st] = <<<<Translate(T, submitted[3][1][3]), TRUE>>>>

\* C11 as stated: of two feeds of the same hypothesis, each insert followed by
\* flush, only the first flush commits: the second returns the empty list
C11_SecondFlushEmpty == hb_rep = 2 => hb_last = <<>>

\* C11: when the same hypothesis is fed twice, each insert followed by flush,
\* into a buffer that holds no uncommitted words, the commits come only with
\* the second flush: the first flush returns the empty list and the second
\* returns every word that insert kept, leaving none uncommitted
C11_CommitOnSecondFlush ==
    [][(hb_rep' = 2 /\ hb_was_empty')
         => /\ hb_first' = <<>>
            /\ hb_last' = hbuf.buffer
            /\ hbuf'.buffer = <<>>
            /\ hbuf'.commited_in_buffer = hbuf.commited_in_buffer \o hbuf.buffer]_vars

C11_Witness ==
    /\ hb_rep = 2 /\ hb_was_empty
    /\ Len(hb_last) = 2
    /\ Len(hbuf.commited_in_buffer) > 2

\* C12: chunk_at(t) called again right after chunk_at(t) changes nothing: the
\* audio buffer, buffer_time_offset and the committed list of the hypothesis
\* buffer are as the first call left them
C12_ChunkAtIdempotent ==
    [][(op = "chunk_at" /\ op' = "chunk_at" /\ chunk_t' = chunk_t)
         => /\ online'.audio_buffer = online.audio_buffer
            /\ online'.buffer_time_offset = online.buffer_time_offset
            /\ online'.transcript_buffer.commited_in_buffer
                  = online.transcript_buffer.commited_in_buffer]_vars

\* the second of two calls with the same time, on a processor whose first call
\* cut audio and left both audio and committed words behind
C12_Witness ==
    /\ op = "chunk_at" /\ chunk_rep = 2 /\ chunk_t > 0
    /\ online.audio_buffer # <<>> /\ Head(online.audio_buffer) = chunk_t
    /\ online.transcript_buffer.commited_in_buffer # <<>>

\* C13: a process_iter that finds the audio buffer as long as it was at the last
\* transcription does not invoke the ASR, returns the empty pair and leaves the
\* processor (audio, offset, hypothesis buffer, prompt, transcripts) as it was
C13_NoNewAudioNoOp ==
    [][(op' = "process_iter" /\ ~WillTranscribe)
         => /\ ~invoked' /\ calls' = calls
            /\ ret' = EmptyPair
            /\ online' = online]_vars

\* such a process_iter, on a processor that has transcribed before and holds
\* audio and uncommitted words
C13_Witness ==
    /\ op = "process_iter" /\ ~invoked /\ calls > 0
    /\ online.audio_buffer # <<>>
    /\ online.transcript_buffer.buffer # <<>>

\* the step is an exception of the given kinds
Raises(kinds) == faults' # faults /\ faults'[Len(faults')].kind \in kinds

\* C14: when translating a dispatched item raises, in preparing the text or in
\* the model call, the worker does not end; the sinks of the target whose model
\* call raised receive "[ Translation Error ]" for the item; and every item
\* that was dispatched has reached every target
C14_MTErrorSentinel ==
    [][Raises({"prepare", "model"})
         => /\ pc' # "dead"
            /\ \A T \in Translators, s \in Streams :
                  faults'[Len(faults')].T = T
                    => /\ Len(output_streams'[T][s]) = Len(output_streams[T][s]) + 1
                       /\ output_streams'[T][s][Len(output_streams'[T][s])]
                             = <<TranslationError, task[2]>>
            /\ \A i \in 1..Len(handled') :
                  ShouldDispatch(handled'[i].task[2], handled'[i].queue_size)
                    => handled'[i].reached = Translators]_vars

\* C15: when write() of one output sink raises, the translation worker does not
\* end, main_loop stays in its loop, and every other sink of that translator
\* receives the item
C15_SinkFailureIsolated ==
    [][Raises({"sink", "source sink"})
         => /\ pc' # "dead"
            /\ main_pc' = "running"
            /\ \A T \in Translators, s \in Streams :
                  (faults'[Len(faults')].T = T /\ faults'[Len(faults')].s # s)
                    => Len(output_streams'[T][s]) = Len(output_streams[T][s]) + 1]_vars

\* C18: every output sink, source-language or per-target, is stopped only after
\* main_loop has stopped the audio source and closed the transcriber and the
\* translation worker has been joined
C18_SinksClosedAfterJoin ==
    stopped # {} => main_pc = "transcriber closed" /\ stop_pc = "done"

\* C19: the translation queue has a fixed capacity: however many times put_text
\* is called and however slow the worker is, the queue holds fewer tasks than
\* the MaxPuts calls the producer can make
C19_BoundedQueue == Len(translation_queue) < MaxPuts

\* C16: when the external transcribe call raises during process_iter, the loop
\* keeps running, process_iter returns the empty pair, and the buffer still
\* counts as not transcribed, so that the next process_iter invokes the ASR
C16_ASRErrorRetried ==
    [][Raises({"transcribe"})
         => /\ ~raised'
            /\ ret' = EmptyPair
            /\ WillTranscribe']_vars

\* more than 5 words, and one text at more than half of the places
Repetitive(h) ==
    /\ Len(h) > 5
    /\ \E i \in 1..Len(h) :
         2 * Cardinality({j \in 1..Len(h) : h[j][3] = h[i][3]}) > Len(h)

\* the step is a process_iter to which the ASR gave a repetitive hypothesis
DropsRepetition == op' = "process_iter" /\ invoked' /\ Repetitive(asr_h')

\* C17 as stated: a process_iter whose hypothesis has more than 5 words, one
\* text at more than half of the places, returns the empty pair and changes
\* nothing in the processor, the transcription bookkeeping included
C17_NoStateChange ==
    [][DropsRepetition => (ret' = EmptyPair /\ online' = online)]_vars

\* C17: such a process_iter returns the empty pair without raising and changes
\* nothing in the processor (hypothesis buffer, transcripts, prompt, audio,
\* offset) but len_audio_buffer_last_transcribed, which becomes the length of
\* the audio buffer
C17_DroppedHypothesis ==
    [][DropsRepetition
         => /\ ret' = EmptyPair
            /\ ~raised'
            /\ last_commit' = <<>>
            /\ online' = [online EXCEPT !.len_audio_buffer_last_transcribed =
                                            Len(online.audio_buffer)]]_vars

\* a repetitive hypothesis dropped by a processor that holds committed and
\* uncommitted words
C17_Witness ==
    /\ op = "process_iter" /\ invoked /\ Repetitive(asr_h)
    /\ \E i, j \in 1..Len(asr_h) : asr_h[i][3] # asr_h[j][3]
    /\ online.transcript_buffer.buffer # <<>>
    /\ online.transcript_buffer.commited_in_buffer # <<>>

\* C20: whenever neither thread is inside insert_audio_chunk or chunk_at, the
\* audio buffer holds exactly the blocks inserted since init, in order, minus
\* the blocks trimmed: no inserted chunk is lost and no trim is undone
C20_AudioBufferSafe ==
    (audio_pc = "idle" /\ trim_pc = "idle")
      => online.audio_buffer = [i \in 1..(inserted - trimmed) |-> trimmed + i - 1]

\* C21: while a process_iter is in progress, no step of the audio thread changes
\* the hypothesis buffer, the transcripts, the prompt, buffer_time_offset or the
\* last-transcribed length of the processor
C21_OwnedByTranscriptionThread ==
    [][(iter_pc = "transcribing" /\ iter_pc' = "transcribing")
         => /\ online'.transcript_buffer = online.transcript_buffer
            /\ online'.final_transcript = online.final_transcript
            /\ online'.commited_not_final = online.commited_not_final
            /\ online'.promt = online.promt
            /\ online'.buffer_time_offset = online.buffer_time_offset
            /\ online'.len_audio_buffer_last_transcribed
                  = online.len_audio_buffer_last_transcribed]_vars

\* the text without its leading full stop
Stripped(t) == IF Len(t) >= 1 /\ t[1] = "." THEN Tail(t) ELSE t

\* C22: words_to_sentences returns normally; (a) the texts it returns are the
\* texts of the words, a leading "." stripped; (b), (c) no sentence ends with a
\* word that has a digit followed by "." or that contains "..."
C22_SegmenterBoundaries ==
    op = "words_to_sentences"
      => /\ ~fn_out.raised
         /\ Join(<<>>, TextsOf(fn_out.sentences \o fn_out.tailing_words))
               = Join(<<>>, [i \in 1..Len(fn_in) |-> Stripped(fn_in[i][3])])
         /\ \A i \in 1..Len(fn_in) :
               (HasDigitDot(fn_in[i][3]) \/ HasEllipsis(fn_in[i][3]))
                 => \A k \in 1..Len(fn_out.sentences) : fn_out.sentences[k][2] # i

\* C23: finish() called with audio in the buffer asks the ASR once, returns the
\* concatenation of what the ASR returned as the committed segment and
\* (None, None, "") as the uncommitted one, and leaves audio_buffer and
\* commited_not_final empty
C23_FinishTranscribesOnce ==
    [][(op' = "finish" /\ ~finished /\ finished' /\ Len(online.audio_buffer) > 0)
         => /\ invoked' /\ calls' = calls + 1
            /\ \E h \in Hypotheses(Len(online.audio_buffer)) :
                  ret' = <<concatenate_tsw(ts_words_shifted(online, h)), EmptySeg>>
            /\ online'.audio_buffer = <<>>
            /\ online'.commited_not_final = <<>>]_vars

\* the length of the longest common prefix, by text, of two lists of words
CommonPrefixLen(x, y) ==
    Max(0, CHOOSE k \in 0..Min(Len(x), Len(y)) :
             /\ \A i \in 1..k : x[i][3] = y[i][3]
             /\ k < Min(Len(x), Len(y)) => x[k + 1][3] # y[k + 1][3])

\* what insert(h, offset) leaves in self.new of the buffer hb
Incoming(hb, H) == Insert(hb, H[1], H[2]).new

\* C24: flush returns the longest common prefix, by text, of buffer (the
\* previous hypothesis) and new (the current one); afterwards buffer is the rest
\* of new, new is empty, commited_in_buffer is extended by the returned words
\* and last_commited_time is the end of the last returned word, unchanged when
\* nothing is returned
C24_FlushLongestCommonPrefix ==
    [][hb_rep' >= 1 =>
         \E k \in {CommonPrefixLen(hbuf.buffer, Incoming(hbuf, hb_H'))} :
             /\ hb_last' = SubSeq(Incoming(hbuf, hb_H'), 1, k)
             /\ hbuf'.buffer
                  = SubSeq(Incoming(hbuf, hb_H'), k + 1, Len(Incoming(hbuf, hb_H')))
             /\ hbuf'.new = <<>>
             /\ hbuf'.commited_in_buffer = hbuf.commited_in_buffer \o hb_last'
             /\ hbuf'.last_commited_time
                  = IF k > 0 THEN hb_last'[k][2] ELSE hbuf.last_commited_time]_vars

\* a flush that returned one word and left another, which the previous
\* hypothesis did not have, uncommitted
C24_Witness ==
    /\ hb_rep = 1
    /\ Len(hb_last) = 1 /\ Len(hbuf.buffer) = 1
    /\ hbuf.last_commited_time = hb_last[1][2]
    /\ hbuf.commited_in_buffer # <<>>
    /\ hbuf.commited_in_buffer[Len(hbuf.commited_in_buffer)] = hb_last[1]

\* the texts of the words of h
TextSet(h) == {h[i][3] : i \in 1..Len(h)}

\* C25: a process_iter that asked the ASR commits only words on which the
\* hypothesis of this ASR call and the hypothesis of the ASR call right before
\* it agree; after a call that returned an empty hypothesis nothing of the
\* hypothesis before that one is committed
C25_LocalAgreement2 ==
    [][(op' = "process_iter" /\ invoked')
         => \A i \in 1..Len(last_commit') :
               /\ last_commit'[i][3] \in TextSet(asr_h')
               /\ last_commit'[i][3] \in TextSet(asr_prev')]_vars

\* the words of the hypothesis H = <<h, offset>> that the filter of insert keeps
KeptOf(hb, H) ==
    SelectSeq([i \in 1..Len(H[1]) |->
                 <<H[1][i][1] + H[2], H[1][i][2] + H[2], H[1][i][3]>>],
              LAMBDA w : w[1] > hb.last_commited_time - Tenth)

\* the largest n up to MaxNgram for which the last n texts of commited are the
\* first n texts of new, 0 when there is none
LargestNgram(commited, new) ==
    Max(0, CHOOSE n \in 0..Min(Min(Len(commited), Len(new)), MaxNgram) :
             \A m \in 0..Min(Min(Len(commited), Len(new)), MaxNgram) :
                 (m = 0 \/ TextsOf(SubSeq(commited, Len(commited) - m + 1, Len(commited)))
                             = TextsOf(SubSeq(new, 1, m)))
                   => /\ m <= n
                      /\ (n = 0 \/ TextsOf(SubSeq(commited, Len(commited) - n + 1,
                                                   Len(commited)))
                                     = TextsOf(SubSeq(new, 1, n))))

\* C26: when the words insert keeps are not empty, commited_in_buffer is not
\* empty and the first kept word starts within a second of last_commited_time,
\* insert removes from the front of the kept words the largest n-gram, n up to
\* 5, that repeats the end of commited_in_buffer (what flush then returns and
\* leaves in buffer is the rest)
C26_LargestNgramDropped ==
    [][(/\ hb_rep' >= 1
        /\ KeptOf(hbuf, hb_H') # <<>>
        /\ hbuf.commited_in_buffer # <<>>
        /\ Abs(KeptOf(hbuf, hb_H')[1][1] - hbuf.last_commited_time) < OneSec)
         => hb_last' \o hbuf'.buffer
              = SubSeq(KeptOf(hbuf, hb_H'),
                       1 + LargestNgram(hbuf.commited_in_buffer, KeptOf(hbuf, hb_H')),
                       Len(KeptOf(hbuf, hb_H')))]_vars

\* every word of ws starts after last_commited_time - 0.1 of hb
StartAfterCommitted(ws, hb) ==
    \A i \in 1..Len(ws) : ws[i][1] > hb.last_commited_time - Tenth

C28_NotFinalAfterTrimPoint ==
    (op = "process_iter" /\ ~raised /\ online.commited_not_final # <<>>)
      => online.commited_not_final[1][1] >= online.buffer_time_offset

\* len(ends) after the pops: ends[-1] is popped while len(ends) > 2 and
\* ends[-2] > t, t the end of the last word
EndsKept(words) ==
    CHOOSE k \in 2..Len(words) :
        /\ k = 2 \/ words[k - 1][2] <= words[Len(words)][2]
        /\ \A j \in (k + 1)..Len(words) : words[j - 1][2] > words[Len(words)][2]

\* segment mode, words the list get_completed_words finds in commited_not_final:
\* the audio has reached buffer_trimming_sec, there are two words or more and
\* e = ends[-2] <= t after the pops
SegmentTrims(p, words) ==
    /\ Len(p.audio_buffer) >= p.buffer_trimming_sec * SAMPLING_RATE
    /\ Len(words) >= 2
    /\ words[EndsKept(words) - 1][2] <= words[Len(words)][2]

C30_ForcedChunkCoversAll ==
    [][(/\ op' = "process_iter" /\ invoked'
        /\ online.buffer_trimming_way = "sentence"
        /\ last_commit' # <<>>
        /\ words_to_sentences(online.commited_not_final \o last_commit').sentences = <<>>
        /\ ~words_to_sentences(online.commited_not_final \o last_commit').raised
        /\ Len(online.audio_buffer) >= online.buffer_trimming_sec * SAMPLING_RATE)
         => /\ ~raised'
            /\ ret'[1] = concatenate_tsw(online.commited_not_final \o last_commit')]_vars

\* C31: once stop() has cleared should_run and waits in join(), the translation
\* thread leaves its loop the next time it is at the top of it (so it takes no
\* task after the one it is at), the join ends and stop() returns
C31_WorkerTerminates ==
    /\ (stop_pc = "join") ~> (stop_pc = "done" /\ pc = "done")
    /\ [][(stop_pc = "join" /\ pc = "loop") => pc' \in {"loop", "done"}]_vars

\* stop() has returned from the join of a thread that had handled tasks and
\* ended with tasks left in the queue
C31_Witness ==
    /\ stop_pc = "done" /\ pc = "done"
    /\ translation_queue # <<>>
    /\ handled # <<>>

\* C32: process_iter, in either trimming mode, on any audio and any hypothesis
\* of words with a text and start <= end, raises nothing and returns a pair of
\* segments
C32_ProcessIterNeverRaises ==
    op = "process_iter" => (~raised /\ Len(ret) = 2)

\* C33: a process_iter that follows the insertion of audio invokes the ASR, it
\* does not return at the test for new audio, also when the process_iter before
\* trimmed the audio buffer
C33_NewAudioTranscribed ==
    [][(op' = "process_iter" /\ inc > 0) => invoked']_vars


\* the k-th submitted segment has been handed to every target translator
Dispatched(k) ==
    IF Len(submitted) >= k
    THEN \E i \in 1..Len(handled) :
             /\ handled[i].task = submitted[k]
             /\ handled[i].reached = Translators
    ELSE FALSE

\* the k-th call of put_text was made, with is_complete = True
SubmittedComplete(k) ==
    IF Len(submitted) >= k THEN IsComplete(submitted[k]) ELSE FALSE

\* C34: every segment submitted as complete on a started pipeline is eventually
\* dispatched to every target translator, also when it is still in the queue
\* at the time stop() is called
C34_NoCompleteSegmentLost ==
    \A k \in 1..MaxPuts :
        [](  (pc # "not started" /\ Len(submitted) < k)
          => [](SubmittedComplete(k) => <>Dispatched(k)))


\* C35: every utterance is finished on its own audio: while is_currently_final
\* is set an insert_audio_chunk leaves the wrapped processor with the audio and
\* the offset of the utterance that ended (no start event re-initialises it),
\* and the finish() that process_iter then runs follows the end event with no
\* start event in between, so that it never runs on the audio of the following
\* utterance
C35_FinishedOnOwnAudio ==
    [][ /\ (vac.is_currently_final /\ op' = "insert_audio_chunk") =>
             /\ online'.buffer_time_offset = online.buffer_time_offset
             /\ online'.audio_buffer = online.audio_buffer
             /\ online'.transcript_buffer = online.transcript_buffer
        /\ (vac.is_currently_final /\ op' = "process_iter") =>
             utt_end # None ]_vars


\* the concatenated text of a list of words or segments
TextOfAll(tsw) == Join(<<>>, TextsOf(tsw))

\* C36: trimming conserves the committed stream. After every process_iter the
\* text of the committed segments returned so far followed by the text of
\* commited_not_final is the text of the words flush returned so far; as both
\* texts only grow at their ends, that is: in every process_iter the text of
\* commited_not_final before it followed by the text of the words flush()
\* returned in it is the text of the committed segment it returns followed by
\* the text of commited_not_final after it
C36_TrimmingConserves ==
    [][ op' = "process_iter" =>
          TextOfAll(online.commited_not_final) \o TextOfAll(last_commit')
             = ret'[1][3] \o TextOfAll(online'.commited_not_final) ]_vars


\* a process_iter in sentence mode committed two words, returned the sentence the
\* first one closes and kept the second in commited_not_final
C36_Witness ==
    /\ op = "process_iter"
    /\ online.buffer_trimming_way = "sentence"
    /\ Len(last_commit) = 2
    /\ ret[1][3] = last_commit[1][3]
    /\ TextOfAll(online.commited_not_final) = last_commit[2][3]


\* C37: within an utterance (init offset 0, before finish) buffer_time_offset
\* never decreases, and the first sample of the audio buffer is the sample at
\* buffer_time_offset: the samples before the offset and the samples in the
\* buffer are together the samples inserted since init
C37_AudioOffsetAlignment ==
    [][ ~finished' =>
          /\ online'.buffer_time_offset >= online.buffer_time_offset
          /\ online'.buffer_time_offset * SAMPLING_RATE + Len(online'.audio_buffer)
                = inserted' ]_vars

====
